---------------------------- MODULE Spec2Model ----------------------------
(***************************************************************************)
(* The order book of src/app.py: the Order and Trade tables, the two       *)
(* heapq heaps of the module-level OrderBook `market`, and the request     *)
(* handlers place_order -> OrderBook.process_order, get_book and the        *)
(* start-up reload_from_db.                                                 *)
(*                                                                         *)
(* An Order row and the ORM object the heaps hold are one value here, as   *)
(* the source text reads them (record_trade changes order.remaining and    *)
(* commits).  An order's id is its index in `orders` (autoincrement        *)
(* primary key, no row is ever deleted).  Order.timestamp is the wall      *)
(* clock at insert (default=datetime.utcnow) turned into a float by        *)
(* naive_datetime.timestamp(): neither the clock nor that conversion is    *)
(* monotonic in submission order, so the stamp is an input.                *)
(* The Trade rows also carry the ids of the two orders (buy_id, sell_id,   *)
(* taker): history fields the code does not store, used only to state the  *)
(* properties.  Trade.timestamp and get_book's 'last_trade' are left out.  *)
(***************************************************************************)
EXTENDS Integers, Sequences, FiniteSets, TLC

\* ------------------------------------------------------------- bounds
MaxOrders == 3
MaxQty == 2
MaxStamp == 1
MaxStreak == 2
NumEmails == 1
NumThreads == 2

Emails == 1..NumEmails
Sides == {"buy", "sell", "hold"}
Prices == {40, 60, 101}
Qtys == (-1)..MaxQty
Stamps == 0..MaxStamp
Threads == 1..NumThreads

\* What /api/order may carry: int(data['price']) and int(data['qty']) are any
\* integers and data['side'] any string.  The inputs tried are the
\* submissions with at most one field outside the documented domain (side
\* 'buy' or 'sell', price 0..100, qty > 0).
Submissions ==
    {s \in [side : Sides, price : Prices, qty : Qtys] :
        Cardinality({f \in {"side", "price", "qty"} :
            \/ f = "side" /\ s.side \notin {"buy", "sell"}
            \/ f = "price" /\ s.price \notin 0..100
            \/ f = "qty" /\ s.qty <= 0}) <= 1}

VARIABLES
    orders,     \* the Order table: orders[id]
    trades,     \* the Trade table, in insertion order
    bids,       \* market.bids: a heapq array of order ids
    asks,       \* market.asks: a heapq array of order ids
    pc,         \* pc[t]: where request thread t stands in process_order
    cur,        \* cur[t]: id of new_order of thread t's call (0: none)
    rem,        \* rem[t]: remaining_qty
    top,        \* top[t]: id of ask_order / bid_order read from heap[0]
    tqty,       \* tqty[t]: trade_qty
    pre,        \* pre[t]: the tables and heaps as thread t's call found them
    response,   \* the answer to the latest request ("none": not answered yet)
    reloaded,   \* the last step was reload_from_db
    streak,     \* how many reload_from_db ran in a row just now (up to MaxStreak)
    evals       \* evals[t]: evaluations of the while condition in t's call

vars == <<orders, trades, bids, asks, pc, cur, rem, top, tqty, pre,
          response, reloaded, streak, evals>>

\* ------------------------------------------------------------- heapq
\* HeapEntry with the price not negated for bids.
HeapEntryUnsigned(ords, is_buy, id) == <<ords[id].price, ords[id].ts, id>>

\* The heap entry of order id: (-price, timestamp, id, o) in bids,
\* (price, timestamp, id, o) in asks.  Ids differ, so the comparison of two
\* entries never reaches the Order object.
HeapEntry(ords, is_buy, id) ==
    <<IF is_buy THEN 0 - ords[id].price ELSE ords[id].price, ords[id].ts, id>>

\* Python's tuple order on two entries.
TupleLess(a, b) ==
    \/ a[1] < b[1]
    \/ a[1] = b[1] /\ a[2] < b[2]
    \/ a[1] = b[1] /\ a[2] = b[2] /\ a[3] < b[3]

EntryLess(ords, is_buy, i, j) ==
    TupleLess(HeapEntry(ords, is_buy, i), HeapEntry(ords, is_buy, j))

\* heapq._siftdown(heap, 0, pos) with newitem = item (positions from 1).
RECURSIVE SiftDown(_, _, _, _, _)
SiftDown(ords, is_buy, heap, pos, item) ==
    IF pos > 1 /\ EntryLess(ords, is_buy, item, heap[pos \div 2])
    THEN SiftDown(ords, is_buy, [heap EXCEPT ![pos] = heap[pos \div 2]],
                  pos \div 2, item)
    ELSE [heap EXCEPT ![pos] = item]

\* heapq._siftup(heap, pos) with newitem = item.
RECURSIVE SiftUp(_, _, _, _, _)
SiftUp(ords, is_buy, heap, pos, item) ==
    IF 2 * pos <= Len(heap)
    THEN LET child == 2 * pos
             c == IF child + 1 <= Len(heap)
                     /\ ~EntryLess(ords, is_buy, heap[child], heap[child + 1])
                  THEN child + 1 ELSE child
         IN  SiftUp(ords, is_buy, [heap EXCEPT ![pos] = heap[c]], c, item)
    ELSE SiftDown(ords, is_buy, [heap EXCEPT ![pos] = item], pos, item)

heappush(ords, is_buy, heap, id) ==
    SiftDown(ords, is_buy, Append(heap, id), Len(heap) + 1, id)

\* heappop that removes nothing.
KeepHeap(ords, is_buy, heap) == heap

\* heappop as list.pop(): the last array element goes, not the root.
PopLast(ords, is_buy, heap) == SubSeq(heap, 1, Len(heap) - 1)

\* The heap after heapq.heappop (the popped entry is heap[1]).
heappop(ords, is_buy, heap) ==
    LET lastelt == heap[Len(heap)]
        rest == SubSeq(heap, 1, Len(heap) - 1)
    IN  IF rest = <<>> THEN rest ELSE SiftUp(ords, is_buy, rest, 1, lastelt)

\* ------------------------------------------------------------- helpers
\* Min that hands back its first argument.
MinFirst(a, b) == a

Min(a, b) == IF a <= b THEN a ELSE b

IsBuy(o) == o.side = "buy"

NoSnapshot == [orders |-> <<>>, trades |-> <<>>, bids |-> <<>>, asks |-> <<>>]

AllIdle == \A t \in Threads : pc[t] = "idle"

\* ------------------------------------------------------------- get_book
RECURSIVE LevelQtyOriginal(_, _, _, _)
\* LevelQty adding order.quantity instead of order.remaining.
LevelQtyOriginal(ords, heap, price, n) ==
    IF n = 0 THEN 0
    ELSE LevelQtyOriginal(ords, heap, price, n - 1)
         + (IF ords[heap[n]].price = price THEN ords[heap[n]].quantity ELSE 0)

RECURSIVE LevelQty(_, _, _, _)
\* levels[price] after the loop over the first n heap items.
LevelQty(ords, heap, price, n) ==
    IF n = 0 THEN 0
    ELSE LevelQty(ords, heap, price, n - 1)
         + (IF ords[heap[n]].price = price THEN ords[heap[n]].remaining ELSE 0)

RECURSIVE SortedPrices(_, _)
\* sorted(levels.items(), reverse=is_buy) on the keys.
SortedPrices(ps, is_buy) ==
    IF ps = {} THEN <<>>
    ELSE LET first == IF is_buy
                      THEN CHOOSE p \in ps : \A q \in ps : q <= p
                      ELSE CHOOSE p \in ps : \A q \in ps : p <= q
         IN  <<first>> \o SortedPrices(ps \ {first}, is_buy)

get_levels(ords, heap, is_buy) ==
    LET ps == {ords[heap[k]].price : k \in DOMAIN heap}
        sorted == SortedPrices(ps, is_buy)
    IN  [k \in DOMAIN sorted |->
            [price |-> sorted[k],
             qty |-> LevelQty(ords, heap, sorted[k], Len(heap))]]

BookResponse(ords, b, a) ==
    [kind |-> "book", bids |-> get_levels(ords, b, TRUE),
     asks |-> get_levels(ords, a, FALSE)]

StatusResponse(k) == [kind |-> k, bids |-> <<>>, asks |-> <<>>]

\* ------------------------------------------------------------- init
Init ==
    /\ orders = <<>>
    /\ trades = <<>>
    /\ bids = <<>>
    /\ asks = <<>>
    /\ pc = [t \in Threads |-> "idle"]
    /\ cur = [t \in Threads |-> 0]
    /\ rem = [t \in Threads |-> 0]
    /\ top = [t \in Threads |-> 0]
    /\ tqty = [t \in Threads |-> 0]
    /\ pre = [t \in Threads |-> NoSnapshot]
    /\ response = StatusResponse("none")
    /\ reloaded = TRUE
    /\ streak = 1
    /\ evals = [t \in Threads |-> 0]

\* ------------------------------------------------------------- process_order
\* place_order and process_order's "1. Save Order": the row is inserted and
\* committed with remaining = qty, whatever side, price and qty are.
place_order(t, email, side, price, qty, ts) ==
    /\ pc[t] = "idle"
    /\ Len(orders) < MaxOrders
    /\ orders' = Append(orders,
           [user_email |-> email, side |-> side, price |-> price,
            quantity |-> qty, remaining |-> qty, ts |-> ts])
    /\ cur' = [cur EXCEPT ![t] = Len(orders) + 1]
    /\ rem' = [rem EXCEPT ![t] = qty]
    /\ pre' = [pre EXCEPT ![t] =
           [orders |-> orders, trades |-> trades, bids |-> bids, asks |-> asks]]
    /\ pc' = [pc EXCEPT ![t] = "match"]
    /\ evals' = [evals EXCEPT ![t] = 0]
    /\ response' = StatusResponse("none")
    /\ reloaded' = FALSE
    /\ streak' = 0
    /\ UNCHANGED <<trades, bids, asks, top, tqty>>

\* Crosses without the price test of the while condition.
CrossesAnyPrice(ords, new, heap) == heap # <<>>

\* Crosses with < and > for <= and >=.
CrossesStrictly(ords, new, heap) ==
    /\ heap # <<>>
    /\ IF IsBuy(ords[new])
       THEN ords[heap[1]].price < ords[new].price
       ELSE ords[heap[1]].price > ords[new].price

\* The while condition of the matching loop for new_order against the heap
\* of the other side.
Crosses(ords, new, heap) ==
    /\ heap # <<>>
    /\ IF IsBuy(ords[new])
       THEN ords[heap[1]].price <= ords[new].price
       ELSE ords[heap[1]].price >= ords[new].price

\* One evaluation of the while condition and, when it holds, the body up to
\* trade_qty: the lazily deleted entry is popped, or heap[0] is read.
match_loop(t) ==
    /\ pc[t] = "match"
    /\ LET is_buy == IsBuy(orders[cur[t]])
           heap == IF is_buy THEN asks ELSE bids
       IN  IF ~(Crosses(orders, cur[t], heap) /\ rem[t] > 0)
           THEN /\ pc' = [pc EXCEPT ![t] = "rest"]
                /\ UNCHANGED <<bids, asks, top, tqty>>
           ELSE IF orders[heap[1]].remaining <= 0
           THEN /\ IF is_buy
                   THEN asks' = heappop(orders, FALSE, asks) /\ bids' = bids
                   ELSE bids' = heappop(orders, TRUE, bids) /\ asks' = asks
                /\ UNCHANGED <<pc, top, tqty>>
           ELSE /\ top' = [top EXCEPT ![t] = heap[1]]
                /\ tqty' = [tqty EXCEPT ![t] =
                                Min(rem[t], orders[heap[1]].remaining)]
                /\ pc' = [pc EXCEPT ![t] = "trade"]
                /\ UNCHANGED <<bids, asks>>
    /\ reloaded' = FALSE
    /\ streak' = 0
    /\ evals' = [evals EXCEPT ![t] = evals[t] + 1]
    /\ UNCHANGED <<orders, trades, cur, rem, pre, response>>

\* NewTrade at the incoming order's limit price.
NewTradeAtIncomingPrice(ords, new, resting, qty) ==
    LET buyer == IF IsBuy(ords[new]) THEN new ELSE resting
        seller == IF IsBuy(ords[new]) THEN resting ELSE new
    IN  [buyer_email |-> ords[buyer].user_email,
         seller_email |-> ords[seller].user_email,
         price |-> ords[new].price,
         quantity |-> qty,
         buy_id |-> buyer, sell_id |-> seller, taker |-> new]

\* The Trade row of record_trade(buyer_order, seller_order, price, qty).
NewTrade(ords, new, resting, qty) ==
    LET buyer == IF IsBuy(ords[new]) THEN new ELSE resting
        seller == IF IsBuy(ords[new]) THEN resting ELSE new
    IN  [buyer_email |-> ords[buyer].user_email,
         seller_email |-> ords[seller].user_email,
         price |-> ords[resting].price,
         quantity |-> qty,
         buy_id |-> buyer, sell_id |-> seller, taker |-> new]

\* Decrement with the second order's remaining left as it was.
DecrementOne(ords, a, b, qty) ==
    [i \in DOMAIN ords |->
        IF i = a
        THEN [ords[i] EXCEPT !.remaining = ords[i].remaining - qty]
        ELSE ords[i]]

\* Decrement with += for -=.
DecrementUp(ords, a, b, qty) ==
    [i \in DOMAIN ords |->
        IF i = a \/ i = b
        THEN [ords[i] EXCEPT !.remaining = ords[i].remaining + qty]
        ELSE ords[i]]

\* buyer_order.remaining -= qty; seller_order.remaining -= qty
Decrement(ords, a, b, qty) ==
    [i \in DOMAIN ords |->
        IF i = a \/ i = b
        THEN [ords[i] EXCEPT !.remaining = ords[i].remaining - qty]
        ELSE ords[i]]

\* self.record_trade(...); remaining_qty -= trade_qty
record_trade(t) ==
    /\ pc[t] = "trade"
    /\ trades' = Append(trades, NewTrade(orders, cur[t], top[t], tqty[t]))
    /\ orders' = Decrement(orders, cur[t], top[t], tqty[t])
    /\ rem' = [rem EXCEPT ![t] = rem[t] - tqty[t]]
    /\ pc' = [pc EXCEPT ![t] = "evict"]
    /\ reloaded' = FALSE
    /\ streak' = 0
    /\ UNCHANGED <<bids, asks, cur, top, tqty, pre, response, evals>>

\* The call of thread t ends in an exception: Flask answers 500.
Raise(t) ==
    /\ pc' = [pc EXCEPT ![t] = "idle"]
    /\ cur' = [cur EXCEPT ![t] = 0]
    /\ rem' = [rem EXCEPT ![t] = 0]
    /\ top' = [top EXCEPT ![t] = 0]
    /\ tqty' = [tqty EXCEPT ![t] = 0]
    /\ pre' = [pre EXCEPT ![t] = NoSnapshot]
    /\ evals' = [evals EXCEPT ![t] = 0]
    /\ response' = StatusResponse("error")

\* if ask_order.remaining == 0: heapq.heappop(self.asks)   (and for bids).
\* heappop pops whatever heap[0] is by now, and raises IndexError on an
\* empty heap.
evict(t) ==
    /\ pc[t] = "evict"
    /\ LET is_buy == IsBuy(orders[cur[t]])
           heap == IF is_buy THEN asks ELSE bids
       IN  IF orders[top[t]].remaining # 0
           THEN /\ pc' = [pc EXCEPT ![t] = "match"]
                /\ UNCHANGED <<bids, asks, cur, rem, top, tqty, pre, response,
                               evals>>
           ELSE IF heap = <<>>
           THEN Raise(t) /\ UNCHANGED <<bids, asks>>
           ELSE /\ IF is_buy
                   THEN asks' = heappop(orders, FALSE, asks) /\ bids' = bids
                   ELSE bids' = heappop(orders, TRUE, bids) /\ asks' = asks
                /\ pc' = [pc EXCEPT ![t] = "match"]
                /\ UNCHANGED <<cur, rem, top, tqty, pre, response, evals>>
    /\ reloaded' = FALSE
    /\ streak' = 0
    /\ UNCHANGED <<orders, trades>>

\* if remaining_qty > 0: heappush(own side); return True; place_order
\* answers {'status': 'ok'}.
rest(t) ==
    /\ pc[t] = "rest"
    /\ IF rem[t] > 0
       THEN IF IsBuy(orders[cur[t]])
            THEN bids' = heappush(orders, TRUE, bids, cur[t]) /\ asks' = asks
            ELSE asks' = heappush(orders, FALSE, asks, cur[t]) /\ bids' = bids
       ELSE UNCHANGED <<bids, asks>>
    /\ pc' = [pc EXCEPT ![t] = "idle"]
    /\ cur' = [cur EXCEPT ![t] = 0]
    /\ rem' = [rem EXCEPT ![t] = 0]
    /\ top' = [top EXCEPT ![t] = 0]
    /\ tqty' = [tqty EXCEPT ![t] = 0]
    /\ pre' = [pre EXCEPT ![t] = NoSnapshot]
    /\ evals' = [evals EXCEPT ![t] = 0]
    /\ response' = StatusResponse("ok")
    /\ reloaded' = FALSE
    /\ streak' = 0
    /\ UNCHANGED <<orders, trades>>

\* ------------------------------------------------------------- get_book
get_book ==
    /\ response' = BookResponse(orders, bids, asks)
    /\ reloaded' = FALSE
    /\ streak' = 0
    /\ UNCHANGED <<orders, trades, bids, asks, pc, cur, rem, top, tqty, pre,
                   evals>>

\* ------------------------------------------------------------- download_report
\* The rows of the CSV after the header, one per Trade in table order:
\* ID, buyer, seller, price, quantity and total = (price * quantity) / 100,
\* a float kept here as the pair <<numerator, 100>>.
ReportRows(trs) ==
    [k \in DOMAIN trs |->
        [id |-> k, buyer_email |-> trs[k].buyer_email,
         seller_email |-> trs[k].seller_email, price |-> trs[k].price,
         quantity |-> trs[k].quantity,
         total |-> <<trs[k].price * trs[k].quantity, 100>>]]

download_report ==
    /\ response' = [kind |-> "csv", rows |-> ReportRows(trades)]
    /\ reloaded' = FALSE
    /\ streak' = 0
    /\ UNCHANGED <<orders, trades, bids, asks, pc, cur, rem, top, tqty, pre,
                   evals>>

\* ------------------------------------------------------------- reload_from_db
\* ActiveOrders with the filter remaining >= 0.
ActiveOrdersWithFilled(ords) == {i \in DOMAIN ords : ords[i].remaining >= 0}

\* ActiveOrders with the filter remaining == quantity.
ActiveOrdersUntouched(ords) ==
    {i \in DOMAIN ords :
        ords[i].remaining > 0 /\ ords[i].remaining = ords[i].quantity}

\* Order.query.filter(Order.remaining > 0)
ActiveOrders(ords) == {i \in DOMAIN ords : ords[i].remaining > 0}

\* The orders in which .all() may return the rows (the query has no ORDER BY).
RECURSIVE RowOrders(_)
RowOrders(S) ==
    IF S = {} THEN {<<>>}
    ELSE UNION {{<<i>> \o s : s \in RowOrders(S \ {i})} : i \in S}

RECURSIVE PushAll(_, _, _, _)
\* The loop over active_orders for one heap.
PushAll(ords, is_buy, heap, rows) ==
    IF rows = <<>> THEN heap
    ELSE PushAll(ords, is_buy,
                 IF IsBuy(ords[Head(rows)]) = is_buy
                 THEN heappush(ords, is_buy, heap, Head(rows))
                 ELSE heap,
                 Tail(rows))

\* RebuiltHeap without self.bids = [] / self.asks = [].
RebuiltOnOldHeap(ords, old, is_buy, rows) == PushAll(ords, is_buy, old, rows)

\* self.bids = [] (self.asks = []) and the loop over active_orders.
RebuiltHeap(ords, old, is_buy, rows) == PushAll(ords, is_buy, <<>>, rows)

\* The process starts again: the heaps are rebuilt from the Order table.
reload_from_db ==
    /\ AllIdle
    /\ \E rows \in RowOrders(ActiveOrders(orders)) :
          /\ bids' = RebuiltHeap(orders, bids, TRUE, rows)
          /\ asks' = RebuiltHeap(orders, asks, FALSE, rows)
    /\ response' = StatusResponse("none")
    /\ reloaded' = TRUE
    /\ streak' = IF streak < MaxStreak THEN streak + 1 ELSE streak
    /\ UNCHANGED <<orders, trades, pc, cur, rem, top, tqty, pre, evals>>

\* ------------------------------------------------------------- specifications
\* A request of /api/order with a body among S reaches thread t.
request(t, S) ==
    \E email \in Emails, s \in S, ts \in Stamps :
        place_order(t, email, s.side, s.price, s.qty, ts)

process_order(t) ==
    \/ request(t, Submissions)
    \/ match_loop(t)
    \/ record_trade(t)
    \/ evict(t)
    \/ rest(t)

\* One request at a time.
Next ==
    \/ process_order(1)
    \/ AllIdle /\ get_book
    \/ AllIdle /\ download_report
    \/ reload_from_db

Spec == Init /\ [][Next]_vars

\* ------------------------------------------------------------- commit failures
\* db.session.commit() of line 61 raises: the Order row is not inserted and
\* process_order is left before it touched anything.
place_order_commit_fails(t) ==
    /\ pc[t] = "idle"
    /\ Len(orders) < MaxOrders
    /\ response' = StatusResponse("error")
    /\ reloaded' = FALSE
    /\ streak' = 0
    /\ UNCHANGED <<orders, trades, bids, asks, pc, cur, rem, top, tqty, pre,
                   evals>>

\* db.session.commit() of record_trade raises: the Trade row is not
\* inserted; the two order objects keep the decrement made before the
\* commit; nothing of this call is undone and the exception leaves
\* process_order.
record_trade_commit_fails(t) ==
    /\ pc[t] = "trade"
    /\ orders' = Decrement(orders, cur[t], top[t], tqty[t])
    /\ Raise(t)
    /\ reloaded' = FALSE
    /\ streak' = 0
    /\ UNCHANGED <<trades, bids, asks>>

NextFail ==
    \/ Next
    \/ place_order_commit_fails(1)
    \/ record_trade_commit_fails(1)

\* One request at a time, any commit may fail.
SpecFail == Init /\ [][NextFail]_vars

\* Two request threads of the threaded development server (app.run) in
\* process_order on the one module-level market; nothing in the source
\* takes a lock.
\* The races need no ill-formed input: the bodies tried are the ones inside
\* the documented domain.
NextConc ==
    \E t \in Threads :
        \/ request(t, {s \in Submissions :
                           s.side \in {"buy", "sell"} /\ s.price \in 0..100 /\ s.qty > 0})
        \/ match_loop(t)
        \/ record_trade(t)
        \/ evict(t)
        \/ rest(t)

SpecConc == Init /\ [][NextConc]_vars

\* One thread in process_order, another in get_book at any point of it.
NextRead ==
    \/ Next
    \/ get_book

SpecRead == Init /\ [][NextRead]_vars

\* The process stops while a call of process_order is in progress (what was
\* committed stays, the heaps and the call are lost) and starts again:
\* reload_from_db runs at import.
stop_and_restart ==
    /\ ~AllIdle
    /\ \E rows \in RowOrders(ActiveOrders(orders)) :
          /\ bids' = RebuiltHeap(orders, <<>>, TRUE, rows)
          /\ asks' = RebuiltHeap(orders, <<>>, FALSE, rows)
    /\ pc' = [t \in Threads |-> "idle"]
    /\ cur' = [t \in Threads |-> 0]
    /\ rem' = [t \in Threads |-> 0]
    /\ top' = [t \in Threads |-> 0]
    /\ tqty' = [t \in Threads |-> 0]
    /\ pre' = [t \in Threads |-> NoSnapshot]
    /\ evals' = [t \in Threads |-> 0]
    /\ response' = StatusResponse("none")
    /\ reloaded' = TRUE
    /\ streak' = 1
    /\ UNCHANGED <<orders, trades>>

NextCrash ==
    \/ Next
    \/ stop_and_restart

\* One request at a time; the process may stop at any point of a call.
SpecCrash == Init /\ [][NextCrash]_vars

\* One request at a time; a call of process_order that has begun keeps
\* running (its thread is never stopped for good).
SpecLive ==
    /\ Init
    /\ [][Next]_vars
    /\ WF_vars(match_loop(1) \/ record_trade(1) \/ evict(1) \/ rest(1))

\* ------------------------------------------------------------- properties
RECURSIVE SumFilled(_, _, _)
\* Sum of quantity - remaining over the first n orders of one side.
SumFilled(ords, is_buy, n) ==
    IF n = 0 THEN 0
    ELSE SumFilled(ords, is_buy, n - 1)
         + (IF IsBuy(ords[n]) = is_buy
            THEN ords[n].quantity - ords[n].remaining ELSE 0)

RECURSIVE SumTraded(_, _)
SumTraded(trs, n) ==
    IF n = 0 THEN 0 ELSE SumTraded(trs, n - 1) + trs[n].quantity

\* The resting order of a trade: the one that is not the incoming order.
Resting(tr) == IF tr.taker = tr.buy_id THEN tr.sell_id ELSE tr.buy_id

\* C1: time priority.  A step that records a trade fills a resting order
\* only if no order submitted earlier (lower id) on the same side of the
\* book at the same price still has remaining > 0.
C1_TimePriority ==
    [][Len(trades') = Len(trades) + 1 =>
        LET r == Resting(trades'[Len(trades')])
        IN  \A j \in 1..Len(orders) :
                (/\ j < r
                 /\ IsBuy(orders[j]) = IsBuy(orders[r])
                 /\ orders[j].price = orders[r].price)
                => orders[j].remaining <= 0]_vars

C3_RemainingInRange ==
    \A i \in 1..Len(orders) :
        0 <= orders[i].remaining /\ orders[i].remaining <= orders[i].quantity

\* C4: price crossing.  Every trade at price p pairs a buy order with limit
\* price >= p and an order of the sell side with limit price <= p.
C4_PriceCrossing ==
    \A k \in 1..Len(trades) :
        /\ IsBuy(orders[trades[k].buy_id])
        /\ ~IsBuy(orders[trades[k].sell_id])
        /\ orders[trades[k].buy_id].price >= trades[k].price
        /\ orders[trades[k].sell_id].price <= trades[k].price

C4_Witness ==
    \E k \in 1..Len(trades) :
        /\ orders[trades[k].buy_id].price > orders[trades[k].sell_id].price
        /\ trades[k].taker = trades[k].buy_id
        /\ trades[k].price \in 0..100

\* The submission is inside the documented domain.
WellFormed(o) ==
    /\ o.side \in {"buy", "sell"}
    /\ o.price \in 0..100
    /\ o.quantity > 0

\* C5: validation before mutation.  A submission with a price outside
\* 0..100, a quantity that is not positive or a side other than 'buy' and
\* 'sell' creates no order: every Order row is of a well-formed submission.
C5_ValidationBeforeMutation ==
    \A i \in 1..Len(orders) : WellFormed(orders[i])

\* C6: atomic rollback.  When a commit of record_trade fails, the call ends
\* with the Order and Trade tables and the two heaps as the call found them.
C6_AtomicRollback ==
    [][\A t \in Threads :
        (pc[t] = "trade" /\ pc'[t] = "idle" /\ response'.kind = "error")
        => /\ orders' = pre[t].orders
           /\ trades' = pre[t].trades
           /\ bids' = pre[t].bids
           /\ asks' = pre[t].asks]_vars

\* C7: serialized matching.  With two calls of process_order running
\* together no order is filled for more than its quantity: an order of
\* positive quantity never has remaining < 0.
C7_NoOverfill ==
    \A i \in 1..Len(orders) :
        orders[i].quantity > 0 => orders[i].remaining >= 0

\* C8: no torn reads.  A get_book answer given while a process_order call
\* was running shows the book as that call found it or as the call leaves
\* it.
C8_NoTornRead ==
    [][\A t \in Threads :
        (pc[t] = "rest" /\ pc'[t] = "idle" /\ response.kind = "book")
        => \/ response = BookResponse(pre[t].orders, pre[t].bids, pre[t].asks)
           \/ response = BookResponse(orders', bids', asks')]_vars

RECURSIVE SumRemaining(_, _, _, _)
\* Sum of remaining over the active orders of one side at one price, among
\* the first n orders.
SumRemaining(ords, is_buy, price, n) ==
    IF n = 0 THEN 0
    ELSE SumRemaining(ords, is_buy, price, n - 1)
         + (IF /\ IsBuy(ords[n]) = is_buy
               /\ ords[n].price = price
               /\ ords[n].remaining > 0
            THEN ords[n].remaining ELSE 0)

\* What C9 asks of the levels of one side.
LevelsAsClaimed(levels, ords, is_buy) ==
    /\ {levels[k].price : k \in DOMAIN levels}
         = {ords[i].price : i \in {j \in DOMAIN ords :
                IsBuy(ords[j]) = is_buy /\ ords[j].remaining > 0}}
    /\ \A k \in DOMAIN levels :
         /\ levels[k].qty = SumRemaining(ords, is_buy, levels[k].price, Len(ords))
         /\ levels[k].qty > 0
    /\ \A k \in 1..(Len(levels) - 1) :
         IF is_buy THEN levels[k].price > levels[k + 1].price
         ELSE levels[k].price < levels[k + 1].price

\* C9: snapshot content.  With no call in progress, the answer of get_book
\* holds for each side one level per price at which an order of that side
\* has remaining > 0, its qty the sum of those orders' remaining (so never
\* 0), bids by price descending and asks by price ascending.
C9_SnapshotContent ==
    (AllIdle /\ response.kind = "book")
    => /\ LevelsAsClaimed(response.bids, orders, TRUE)
       /\ LevelsAsClaimed(response.asks, orders, FALSE)

C9_Witness ==
    /\ AllIdle
    /\ response.kind = "book"
    /\ trades # <<>>
    /\ \E k \in DOMAIN response.bids :
          /\ response.bids[k].qty = 3
          /\ \E i \in 1..Len(orders) :
                /\ IsBuy(orders[i])
                /\ orders[i].remaining > 0
                /\ orders[i].remaining < orders[i].quantity

RECURSIVE Drain(_, _, _)
\* The order ids in the order in which heappop would hand them out.
Drain(ords, is_buy, heap) ==
    IF heap = <<>> THEN <<>>
    ELSE <<heap[1]>> \o Drain(ords, is_buy, heappop(ords, is_buy, heap))

C11_ReplayIdempotence ==
    [][(reloaded /\ reloaded') =>
        /\ Drain(orders', TRUE, bids') = Drain(orders, TRUE, bids)
        /\ Drain(orders', FALSE, asks') = Drain(orders, FALSE, asks)
        /\ BookResponse(orders', bids', asks') = BookResponse(orders, bids, asks)
        /\ orders' = orders
        /\ trades' = trades]_vars

C11_Witness ==
    /\ streak >= 2
    /\ trades # <<>>
    /\ Len(bids) >= 2 \/ Len(asks) >= 2

\* C12: maker price.  Every trade carries the limit price of the resting
\* order it matched.
C12_MakerPrice ==
    \A k \in 1..Len(trades) :
        trades[k].price = orders[Resting(trades[k])].price

C12_Witness ==
    \E k \in 1..Len(trades) :
        /\ trades[k].price # orders[trades[k].taker].price
        /\ trades[k].taker = trades[k].sell_id

Entries(heap) == {heap[k] : k \in DOMAIN heap}

\* C13: durable before matchable.  The order of a call in progress, every
\* heap entry and both orders of every trade have a committed Order row;
\* and after the process stopped at any point of process_order, the
\* reload_from_db of the restart has every committed order with
\* remaining > 0 in the heap of its side.
C13_DurableBeforeMatchable ==
    [][/\ \A t \in Threads : pc'[t] # "idle" => cur'[t] \in DOMAIN orders'
       /\ Entries(bids') \cup Entries(asks') \subseteq DOMAIN orders'
       /\ \A k \in 1..Len(trades') :
             {trades'[k].buy_id, trades'[k].sell_id} \subseteq DOMAIN orders'
       /\ reloaded' =>
             \A i \in DOMAIN orders' :
                orders'[i].remaining > 0 =>
                    i \in Entries(IF IsBuy(orders'[i]) THEN bids' ELSE asks')]_vars

\* The restart found a call stopped between its commit and its last match:
\* the book it rebuilt is crossed.
C13_Witness ==
    /\ reloaded
    /\ bids # <<>>
    /\ asks # <<>>
    /\ orders[bids[1]].price >= orders[asks[1]].price
    /\ trades # <<>>

\* Order i has a strictly better price than order j of the same side.
BetterPrice(ords, i, j) ==
    IF IsBuy(ords[j]) THEN ords[i].price > ords[j].price
    ELSE ords[i].price < ords[j].price

\* C14: price priority.  A step that records a trade fills a resting order
\* only if no other entry of the same heap with remaining > 0 has a
\* strictly better price.
C14_PricePriority ==
    [][Len(trades') = Len(trades) + 1 =>
        LET r == Resting(trades'[Len(trades')])
            heap == IF IsBuy(orders[r]) THEN bids ELSE asks
        IN  \A j \in Entries(heap) :
                (j # r /\ orders[j].remaining > 0) => ~BetterPrice(orders, j, r)]_vars

\* A resting order was filled while an order of its side with a worse price,
\* submitted before the incoming order, was never touched.
C14_Witness ==
    \E k \in 1..Len(trades) : \E j \in 1..Len(orders) :
        /\ j < trades[k].taker
        /\ j # Resting(trades[k])
        /\ IsBuy(orders[j]) = IsBuy(orders[Resting(trades[k])])
        /\ BetterPrice(orders, Resting(trades[k]), j)
        /\ orders[j].remaining = orders[j].quantity
        /\ orders[j].quantity > 0

RECURSIVE CrossingLiquidity(_, _, _)
\* Sum of remaining over the active orders among the first n of ords that
\* are on the other side of order o and whose price crosses o's price.
CrossingLiquidity(ords, o, n) ==
    IF n = 0 THEN 0
    ELSE CrossingLiquidity(ords, o, n - 1)
         + (IF /\ IsBuy(ords[n]) # IsBuy(o)
               /\ ords[n].remaining > 0
               /\ IF IsBuy(o) THEN ords[n].price <= o.price
                  ELSE ords[n].price >= o.price
            THEN ords[n].remaining ELSE 0)

\* C15: fill amount.  When a call with qty > 0 returns, its order was filled
\* for min(qty, remaining of the active crossing orders of the other side
\* as the call found them); the row's remaining is qty minus that and is
\* the residue, which rests in the heap of its side exactly when it is > 0.
C15_FillAmount ==
    [][\A t \in Threads :
        (pc[t] = "rest" /\ pc'[t] = "idle" /\ orders[cur[t]].quantity > 0) =>
        LET c == cur[t]
            o == orders'[c]
            own == IF IsBuy(o) THEN bids' ELSE asks'
        IN  /\ o.quantity - o.remaining
                 = Min(o.quantity,
                       CrossingLiquidity(pre[t].orders, o, Len(pre[t].orders)))
            /\ o.remaining = rem[t]
            /\ (o.remaining > 0) = (c \in Entries(own))]_vars

\* One call filled its order against two resting orders.
C15_Witness ==
    /\ AllIdle
    /\ \E k \in 1..Len(trades) : \E l \in 1..Len(trades) :
          /\ k < l
          /\ trades[k].taker = trades[l].taker
          /\ Resting(trades[k]) # Resting(trades[l])

C17_AppendOnly ==
    [][/\ Len(trades') >= Len(trades)
       /\ \A k \in 1..Len(trades) : trades'[k] = trades[k]
       /\ Len(orders') >= Len(orders)
       /\ \A i \in 1..Len(orders) :
            /\ orders'[i] = [orders[i] EXCEPT !.remaining = orders'[i].remaining]
            /\ orders'[i].remaining <= orders[i].remaining
            /\ orders'[i].remaining # orders[i].remaining =>
                 /\ Len(trades') = Len(trades) + 1
                 /\ i \in {trades'[Len(trades')].buy_id, trades'[Len(trades')].sell_id}
                 /\ orders[i].remaining - orders'[i].remaining
                      = trades'[Len(trades')].quantity]_vars

\* download_report answered after trades that left an order partly filled.
C17_Witness ==
    /\ response.kind = "csv"
    /\ Len(response.rows) >= 2
    /\ \E i \in 1..Len(orders) :
          orders[i].remaining > 0 /\ orders[i].remaining < orders[i].quantity

Opposite(t, ords, b, a) == IF IsBuy(ords[cur[t]]) THEN a ELSE b

\* C19: termination.  A call of process_order that has begun returns; each
\* iteration of its loop pops one entry of the opposite heap or leaves the
\* incoming remaining quantity at 0; and the while condition is evaluated
\* at most (entries of the opposite heap as the call found it) + 1 times.
C19_Termination ==
    /\ [][\A t \in Threads :
            /\ (pc[t] \in {"match", "evict"} /\ pc'[t] = "match") =>
                 \/ Len(Opposite(t, orders, bids', asks'))
                      = Len(Opposite(t, orders, bids, asks)) - 1
                 \/ rem'[t] = 0
            /\ (pc[t] = "match" /\ evals'[t] # evals[t]) =>
                 evals'[t] <= Len(Opposite(t, orders, pre[t].bids, pre[t].asks)) + 1]_vars
    /\ \A t \in Threads : (pc[t] # "idle") ~> (pc[t] = "idle")

\* A call went three times through the while condition: two iterations,
\* each popping an entry, and the exit.
C19_Witness ==
    \E t \in Threads :
        /\ pc[t] = "rest"
        /\ evals[t] = 3
        /\ Len(Opposite(t, orders, pre[t].bids, pre[t].asks)) = 2

=============================================================================
